---- MODULE Spec2Model ----
(***************************************************************************)
(* Model of the synthetic CPI generator: the process-expression parser     *)
(* (generated_processes.py, PROCESS_GRAMMAR / PARSER), the two structural  *)
(* metrics, generate_vectors, translate_to_cpi, process_to_dot and         *)
(* generate_cpi_bundle (generate_cpi.py).                                  *)
(*                                                                         *)
(* An expression text is modelled at the granularity of the lexer's token  *)
(* stream (whitespace is %ignore'd by the grammar and never reaches the    *)
(* parser).  A token is one of the strings below; "?" stands for any       *)
(* character that matches no terminal of the grammar.                      *)
(***************************************************************************)
EXTENDS Integers, Sequences, FiniteSets, TLC

VARIABLES
    text,          \* the tokens of the expression text read so far
    stack,         \* the parser's stack
    status,        \* "parsing", "ok", or the error PARSER.parse raised
    tree,          \* the tree PARSER.parse returned
    nested,        \* what max_nested_xor(text) returned
    independent,   \* what max_independent_xor(text) returned
    num_vec,       \* generate_vectors: its arguments
    dim,
    mode,
    vectors,       \* generate_vectors: the list built so far
    base,          \* the vector np.random.random(dim) drew in the last iteration
    indexes,       \* the index picks of the last iteration
    vstatus,       \* "idle", "running", "returned", or the error raised
    pc,            \* where translate_to_cpi is: "idle", "parse", "generate_vectors",
                   \* "process_node", "returned" or "raised"
    choice_distribution,
    duration_interval,
    total_tasks,
    impact_vectors,
    id_counter,
    task_counter,
    frames,        \* the active calls of process_node, innermost last
    result,        \* what translate_to_cpi returned
    draws,         \* the draws process_node made from the random source, in order
    dot_lines,     \* what process_to_dot(result) built
    args,          \* generate_cpi_bundle: its arguments
    file,          \* the lines of generated_processes_full_{x}_{y}.txt, or NoFile
    combination,   \* the position of the loop in the grid of combinations
    cpi_bundle,    \* the list built so far
    attempts,      \* the combinations the loop body ran for, and how each ended
    bundle_file,   \* what was written to cpi_bundle_x{x}_y{y}.cpis.gz
    bundle_pc      \* where generate_cpi_bundle is: "idle", "loop", "call" or "returned"

parserVars == <<text, stack, status, tree>>
metricVars == <<nested, independent>>
vecVars == <<num_vec, dim, mode, vectors, base, indexes, vstatus>>
buildVars == <<pc, choice_distribution, duration_interval, total_tasks, impact_vectors, id_counter,
               task_counter, frames, result, draws>>
vars == <<text, stack, status, tree, nested, independent,
          num_vec, dim, mode, vectors, base, indexes, vstatus,
          pc, choice_distribution, duration_interval, total_tasks, impact_vectors, id_counter,
          task_counter, frames, result, draws, dot_lines,
          args, file, combination, cpi_bundle, attempts, bundle_file, bundle_pc>>
bundleVars == <<args, file, combination, cpi_bundle, attempts, bundle_file, bundle_pc>>

(***************************************************************************)
(* Bounds of the model.                                                    *)
(***************************************************************************)
ParseMaxOps == 2
ParseMaxGroups == 1
ParseMaxLeaves == 3
ParseMaxEmpty == 1
MetricMaxOps == 3
VecMaxCount == 2
VecMaxDim == 2
BuildMaxOps == 2
ImpactMaxOps == 1
ImpactMaxDim == 1
BundleMaxLines == 2

NameOrder == <<"a", "b", "c", "d", "e", "f">>
Names == {NameOrder[i] : i \in 1..Len(NameOrder)}
Operators == {"^", "||", ","}
Punctuation == Operators \cup {"(", ")"}
EndOfInput == "$END"
Alphabet == Names \cup Punctuation \cup {"?"}

None == [type |-> "None"]
NoTree == [data |-> "no tree", children |-> <<>>]

(***************************************************************************)
(* lark.Token and lark.Tree.                                               *)
(***************************************************************************)
Token(value) == [type |-> "NAME", value |-> value]
Tree(data, children) == [data |-> data, children |-> children]
IsToken(node) == "value" \in DOMAIN node
IsTree(node) == "children" \in DOMAIN node

(***************************************************************************)
(* Tree construction for one grammar rule.  Every rule of the grammar is   *)
(* written with a leading "?": a match with exactly one child is replaced  *)
(* by that child, unless the alternative carries an alias (-> name), which *)
(* always builds a Tree named by the alias.  The anonymous tokens "^",     *)
(* "||", ",", "(" and ")" are filtered out of the children.                *)
(***************************************************************************)
Callback(rule, alias, children) ==
    IF alias # "" THEN Tree(alias, children)
    ELSE IF Len(children) = 1 THEN children[1]
    ELSE Tree(rule, children)

(***************************************************************************)
(* The grammar's precedence chain, loosest binding first: start is xor,    *)
(* xor is built from parallel, parallel from sequential, sequential from   *)
(* region; each level chains to the left over its own operator token.      *)
(***************************************************************************)
PrecedenceChainReversed == <<"sequential", "parallel", "xor">>
PrecedenceChain == <<"xor", "parallel", "sequential">>
OperatorOf(rule) ==
    CASE rule = "xor" -> "^"
      [] rule = "parallel" -> "||"
      [] rule = "sequential" -> ","
Level(rule) == CHOOSE k \in 1..Len(PrecedenceChain) : PrecedenceChain[k] = rule
Loosest == PrecedenceChain[1]
Tightest == PrecedenceChain[Len(PrecedenceChain)]

(***************************************************************************)
(* The LALR(1) automaton of PROCESS_GRAMMAR, as a shift-reduce parser over *)
(* a stack of <<grammar symbol, value>> entries.  FollowRegion is the set  *)
(* of tokens that can follow a region.                                     *)
(***************************************************************************)
Entry(sym, val) == [sym |-> sym, val |-> val]
Top(st) == IF Len(st) = 0 THEN "$BOTTOM" ELSE st[Len(st)].sym
Below(st) == IF Len(st) < 2 THEN "$BOTTOM" ELSE st[Len(st) - 1].sym
Pop(st, n) == SubSeq(st, 1, Len(st) - n)
FollowRegion == Operators \cup {")", EndOfInput}

ParseState(st, st_status) == [stack |-> st, status |-> st_status]

\* ?region: <empty>
ReduceRegionEmpty(st) == Append(st, Entry("region", Callback("region", "", <<>>)))
\* ?region: NAME -> task
ReduceRegionTask(st) ==
    Append(Pop(st, 1), Entry("region", Callback("region", "task", <<st[Len(st)].val>>)))
\* ?region: "(" xor ")"
ReduceRegionGroup(st) ==
    Append(Pop(st, 3), Entry("region", Callback("region", "", <<st[Len(st) - 1].val>>)))
\* ?rule: tighter | rule OP tighter -> rule     (rule one of xor, parallel, sequential)
ReduceTo(st, rule) ==
    IF Below(st) = OperatorOf(rule)
    THEN Append(Pop(st, 3),
                Entry(rule, Callback(rule, rule, <<st[Len(st) - 2].val, st[Len(st)].val>>)))
    ELSE Append(Pop(st, 1), Entry(rule, Callback(rule, "", <<st[Len(st)].val>>)))

Shift(st, la) ==
    Append(st, Entry(IF la \in Names THEN "NAME" ELSE la,
                     IF la \in Names THEN Token(la) ELSE None))

\* One lookahead token: reduce while the automaton reduces on it, then shift
\* it, accept, or fail.
RECURSIVE Advance(_, _)
Advance(st, la) ==
    LET top == Top(st) IN
    IF la = "?" THEN ParseState(st, "UnexpectedCharacters")
    ELSE IF top \in {"$BOTTOM", "("} \cup Operators THEN
        IF la \in Names \cup {"("} THEN ParseState(Shift(st, la), "parsing")
        ELSE Advance(ReduceRegionEmpty(st), la)
    ELSE IF top = "NAME" THEN
        IF la \in FollowRegion THEN Advance(ReduceRegionTask(st), la)
        ELSE ParseState(st, "UnexpectedToken")
    ELSE IF top = ")" THEN
        IF la \in FollowRegion THEN Advance(ReduceRegionGroup(st), la)
        ELSE ParseState(st, "UnexpectedToken")
    ELSE IF top = "region" THEN Advance(ReduceTo(st, Tightest), la)
    ELSE IF la = OperatorOf(top) THEN ParseState(Shift(st, la), "parsing")
    ELSE IF top # Loosest THEN Advance(ReduceTo(st, PrecedenceChain[Level(top) - 1]), la)
    ELSE IF la = ")" /\ Below(st) = "(" THEN ParseState(Shift(st, la), "parsing")
    ELSE IF la = EndOfInput /\ Below(st) = "$BOTTOM" THEN ParseState(st, "ok")
    ELSE ParseState(st, "UnexpectedToken")

InitParser ==
    /\ text = <<>>
    /\ stack = <<>>
    /\ status = "parsing"
    /\ tree = NoTree

\* The input bound: how many tokens of a kind a text may hold, and how many
\* of its operand positions may be left empty.
Count(toks, kinds) == Cardinality({i \in 1..Len(toks) : toks[i] \in kinds})
MissingOperands(toks) ==
    Cardinality({i \in 1..Len(toks) :
        /\ toks[i] \in FollowRegion
        /\ (i = 1 \/ toks[i - 1] \in Operators \cup {"("})})
Bound(maxOps, maxGroups, maxLeaves, maxEmpty) ==
    [ops |-> maxOps, groups |-> maxGroups, leaves |-> maxLeaves, empty |-> maxEmpty]
WithinBound(toks, bounds) ==
    \E bound \in bounds :
        /\ Count(toks, Names) <= bound.leaves
        /\ Count(toks, Operators) <= bound.ops
        /\ Count(toks, {"("}) <= bound.groups
        /\ MissingOperands(toks) <= bound.empty

\* The lexer hands the parser the next token of the text.
FeedToken(alphabet, bounds) ==
    /\ status = "parsing"
    /\ \E tok \in alphabet :
        /\ tok \in Names => tok = NameOrder[Count(text, Names) + 1]
        /\ WithinBound(Append(text, tok), bounds)
        /\ LET r == Advance(stack, tok) IN
            /\ text' = Append(text, tok)
            /\ stack' = r.stack
            /\ status' = r.status
            /\ tree' = tree

\* The lexer reaches the end of the text.
FeedEnd(bounds) ==
    /\ status = "parsing"
    /\ WithinBound(Append(text, EndOfInput), bounds)
    /\ LET r == Advance(stack, EndOfInput) IN
        /\ stack' = r.stack
        /\ status' = r.status
        /\ tree' = IF r.status = "ok" THEN r.stack[1].val ELSE NoTree
    /\ text' = text

(***************************************************************************)
(* Structural metrics.                                                     *)
(***************************************************************************)
Max(S) == CHOOSE x \in S : \A y \in S : y <= x
RECURSIVE Sum(_)
Sum(s) == IF Len(s) = 0 THEN 0 ELSE s[1] + Sum(Tail(s))
Children(node) == {node.children[i] : i \in 1..Len(node.children)}

\* A slip: every composite node counted as a nesting level.
RECURSIVE _max_nested_xor_counting(_)
_max_nested_xor_counting(node) ==
    IF IsToken(node) \/ (IsTree(node) /\ node.data = "task") THEN 0
    ELSE IF IsTree(node) /\ node.data \in {"xor", "sequential", "parallel"}
        THEN Max({_max_nested_xor_counting(child) : child \in Children(node)}) + 1
    ELSE 0

RECURSIVE _max_nested_xor(_)
_max_nested_xor(node) ==
    IF IsToken(node) \/ (IsTree(node) /\ node.data = "task") THEN 0
    ELSE IF IsTree(node) /\ node.data = "xor"
        THEN Max({_max_nested_xor(child) : child \in Children(node)}) + 1
    ELSE IF IsTree(node) /\ node.data \in {"sequential", "parallel"}
        THEN Max({_max_nested_xor(child) : child \in Children(node)})
    ELSE 0

\* A slip: the maximum, not the sum, over a sequential or parallel node.
RECURSIVE _max_independent_xor_max(_)
_max_independent_xor_max(node) ==
    IF IsToken(node) \/ (IsTree(node) /\ node.data = "task") THEN 0
    ELSE IF IsTree(node) /\ node.data = "xor"
        THEN Max({1, Max({_max_independent_xor_max(child) : child \in Children(node)})})
    ELSE IF IsTree(node) /\ node.data \in {"sequential", "parallel"}
        THEN Max({_max_independent_xor_max(child) : child \in Children(node)})
    ELSE 0

RECURSIVE _max_independent_xor(_)
_max_independent_xor(node) ==
    IF IsToken(node) \/ (IsTree(node) /\ node.data = "task") THEN 0
    ELSE IF IsTree(node) /\ node.data = "xor"
        THEN Max({1, Max({_max_independent_xor(child) : child \in Children(node)})})
    ELSE IF IsTree(node) /\ node.data \in {"sequential", "parallel"}
        THEN Sum([i \in 1..Len(node.children) |-> _max_independent_xor(node.children[i])])
    ELSE 0

NotRun == [status |-> "not run", value |-> 0]
Returned(v) == [status |-> "returned", value |-> v]
Raised(e) == [status |-> e, value |-> 0]

\* max_nested_xor(expression), given what PARSER.parse(expression) did.
max_nested_xor(parse_status, parse_tree) ==
    IF parse_status = "ok" THEN Returned(_max_nested_xor(parse_tree)) ELSE Raised(parse_status)

\* max_independent_xor(expression), given what PARSER.parse(expression) did.
max_independent_xor(parse_status, parse_tree) ==
    IF parse_status = "ok" THEN Returned(_max_independent_xor(parse_tree))
    ELSE Raised(parse_status)

\* A caller asks for a metric of the text read.
MaxNestedXor ==
    /\ status # "parsing"
    /\ nested = NotRun
    /\ nested' = max_nested_xor(status, tree)
    /\ UNCHANGED <<parserVars, independent, vecVars>>

MaxIndependentXor ==
    /\ status # "parsing"
    /\ independent = NotRun
    /\ independent' = max_independent_xor(status, tree)
    /\ UNCHANGED <<parserVars, nested, vecVars>>

InitMetric ==
    /\ nested = NotRun
    /\ independent = NotRun

(***************************************************************************)
(* Floating-point values, exactly: Float(m, e) is m * 10^-e.  The random   *)
(* sources draw from [0, 1); the model draws 0.0 or 0.5.                   *)
(***************************************************************************)
Float(m, e) == [m |-> m, e |-> e]
Zero == Float(0, 0)
RandomDraws == {Zero, Float(5, 1)}
RECURSIVE Pow10(_)
Pow10(e) == IF e = 0 THEN 1 ELSE 10 * Pow10(e - 1)
\* A slip: <= for <.
LessOrEqual(x, y) == x.m * Pow10(y.e) <= y.m * Pow10(x.e)
Less(x, y) == x.m * Pow10(y.e) < y.m * Pow10(x.e)
Div10(x) == IF x.m = 0 THEN Zero ELSE Float(x.m, x.e + 1)

(***************************************************************************)
(* generate_vectors.  A vector is a sequence of dim values; an index pick  *)
(* is 0-based, as random.randint(0, dim-1) returns it.                     *)
(***************************************************************************)
Modes == {"random", "bagging_divide", "bagging_remove", "bagging_remove_divide",
          "bagging_remove_reverse", "bagging_remove_reverse_divide"}

Zeros(d) == [p \in 1..d |-> Zero]
\* for i in indexes: vector[i] /= 10
RECURSIVE DivideAt(_, _)
DivideAt(vector, picks) ==
    IF Len(picks) = 0 THEN vector
    ELSE DivideAt([vector EXCEPT ![picks[1] + 1] = Div10(@)], Tail(picks))
\* for i in indexes: new_vector[i] = vector[i]
RECURSIVE CopyAt(_, _, _)
CopyAt(new_vector, vector, picks) ==
    IF Len(picks) = 0 THEN new_vector
    ELSE CopyAt([new_vector EXCEPT ![picks[1] + 1] = vector[picks[1] + 1]], vector, Tail(picks))
\* for i in indexes: new_vector[i] = vector[i] / 10
RECURSIVE CopyDividedAt(_, _, _)
CopyDividedAt(new_vector, vector, picks) ==
    IF Len(picks) = 0 THEN new_vector
    ELSE CopyDividedAt([new_vector EXCEPT ![picks[1] + 1] = Div10(vector[picks[1] + 1])],
                       vector, Tail(picks))
\* for i in indexes: new_vector[i] = 0
RECURSIVE ZeroAt(_, _)
ZeroAt(new_vector, picks) ==
    IF Len(picks) = 0 THEN new_vector
    ELSE ZeroAt([new_vector EXCEPT ![picks[1] + 1] = Zero], Tail(picks))
\* np.nonzero(new_vector)[0]
NonZero(vector) == {p \in 0..(Len(vector) - 1) : vector[p + 1] # Zero}

\* A slip: the picked positions zeroed, the others kept.
BaggingRemoveReversed(vector, picks) == ZeroAt(vector, picks)
BaggingRemove(vector, picks) == CopyAt(Zeros(Len(vector)), vector, picks)

\* The vectors one iteration can append, given the base vector and the picks.
Modified(md, vector, picks) ==
    CASE md = "bagging_divide" -> {DivideAt(vector, picks)}
      [] md = "bagging_remove" -> {BaggingRemove(vector, picks)}
      [] md = "bagging_remove_divide" -> {CopyDividedAt(Zeros(Len(vector)), vector, picks)}
      [] md = "bagging_remove_reverse" -> {ZeroAt(vector, picks)}
      [] md = "bagging_remove_reverse_divide" ->
            LET new_vector == ZeroAt(vector, picks)
                non_zero_indexes == NonZero(new_vector)
            IN IF non_zero_indexes # {}
               THEN {DivideAt(new_vector, divide_indexes) :
                        divide_indexes \in [1..Len(vector) -> non_zero_indexes]}
               ELSE {new_vector}
      [] OTHER -> {vector}

InitVectors ==
    /\ vectors = <<>>
    /\ base = <<>>
    /\ indexes = <<>>

VecIdle ==
    /\ num_vec = 0
    /\ dim = 0
    /\ mode = "random"
    /\ InitVectors
    /\ vstatus = "idle"

\* One iteration of "for _ in range(num_vec)".
GenerateVector ==
    /\ vstatus = "running"
    /\ Len(vectors) < num_vec
    /\ IF dim < 0
       THEN \* np.random.random(dim) rejects a negative size
            /\ vstatus' = "ValueError"
            /\ UNCHANGED <<vectors, base, indexes>>
       ELSE \E vector \in [1..dim -> RandomDraws] :
                IF mode = "random"
                THEN /\ vectors' = Append(vectors, vector)
                     /\ base' = vector
                     /\ UNCHANGED <<indexes, vstatus>>
                ELSE \E picks \in [1..dim -> 0..(dim - 1)] :
                        \E modified \in Modified(mode, vector, picks) :
                            /\ vectors' = Append(vectors, modified)
                            /\ base' = vector
                            /\ indexes' = picks
                            /\ UNCHANGED vstatus
    /\ UNCHANGED <<num_vec, dim, mode>>

\* The loop is over: return vectors.
ReturnVectors ==
    /\ vstatus = "running"
    /\ Len(vectors) >= num_vec
    /\ vstatus' = "returned"
    /\ UNCHANGED <<num_vec, dim, mode, vectors, base, indexes>>

(***************************************************************************)
(* translate_to_cpi(process_str, choice_distribution, duration_interval,   *)
(* num_impacts, vector_generation_mode).  process_str is the text the      *)
(* parser reads; num_impacts and vector_generation_mode are handed to      *)
(* generate_vectors as its dim and mode.                                   *)
(***************************************************************************)
NoResult == [type |-> "no result"]

RECURSIVE count_tasks(_)
count_tasks(node) ==
    IF IsToken(node) \/ (IsTree(node) /\ node.data = "task") THEN 1
    ELSE Sum([i \in 1..Len(node.children) |-> count_tasks(node.children[i])])

\* {f"impact_{i+1}": float(val) for i, val in enumerate(impact_vector)}, in
\* insertion order; the key "impact_<k>" is modelled by k.
ImpactKey(i) == i + 1
Impacts(impact_vector) ==
    [p \in 1..Len(impact_vector) |-> [key |-> ImpactKey(p - 1), value |-> impact_vector[p]]]

Frame(node) ==
    [node |-> node, at |-> "call", type |-> "", id |-> -1, is_choice |-> FALSE,
     first |-> None, second |-> None]
Draw(kind, id) == [kind |-> kind, id |-> id]

InitBuild ==
    /\ choice_distribution = Zero
    /\ duration_interval = <<0, 0>>
    /\ total_tasks = 0
    /\ impact_vectors = <<>>
    /\ id_counter = 0
    /\ task_counter = 0
    /\ frames = <<>>
    /\ result = NoResult
    /\ draws = <<>>

\* parser.parse(process_str) raised: so does translate_to_cpi.
ParseRaises ==
    /\ pc = "parse"
    /\ status \notin {"parsing", "ok"}
    /\ pc' = "raised"
    /\ UNCHANGED <<choice_distribution, duration_interval, total_tasks, impact_vectors, id_counter,
                   task_counter, frames, result, draws, vecVars>>

\* total_tasks = count_tasks(tree), and the call of generate_vectors; the
\* caller's arguments are read here for the first time.
CountTasks(choice_distributions, duration_intervals, dims, modes) ==
    /\ pc = "parse"
    /\ status = "ok"
    /\ choice_distribution' \in choice_distributions
    /\ duration_interval' \in duration_intervals
    /\ id_counter' = 0
    /\ total_tasks' = count_tasks(tree)
    /\ num_vec' = count_tasks(tree)
    /\ dim' \in dims
    /\ mode' \in modes
    /\ vectors' = <<>>
    /\ vstatus' = "running"
    /\ pc' = "generate_vectors"
    /\ UNCHANGED <<base, indexes, impact_vectors, task_counter, frames, result, draws>>

\* generate_vectors raised: so does translate_to_cpi.
VectorsRaise ==
    /\ pc = "generate_vectors"
    /\ vstatus \notin {"running", "returned"}
    /\ pc' = "raised"
    /\ UNCHANGED <<choice_distribution, duration_interval, total_tasks, impact_vectors, id_counter,
                   task_counter, frames, result, draws, vecVars>>

\* impact_vectors = generate_vectors(...); task_counter = 0; process_node(tree)
CallProcessNode ==
    /\ pc = "generate_vectors"
    /\ vstatus = "returned"
    /\ impact_vectors' = vectors
    /\ task_counter' = 0
    /\ frames' = <<Frame(tree)>>
    /\ pc' = "process_node"
    /\ UNCHANGED <<choice_distribution, duration_interval, total_tasks, id_counter, result, draws, vecVars>>

\* The frames after the innermost call returned value: the caller stores it as
\* its first or second child and, after the first, calls process_node on the
\* second child.
Delivered(fs, value) ==
    LET caller == fs[Len(fs)] IN
    IF caller.at = "first"
    THEN Append([fs EXCEPT ![Len(fs)] = [caller EXCEPT !.first = value, !.at = "second"]],
                Frame(caller.node.children[2]))
    ELSE [fs EXCEPT ![Len(fs)] = [caller EXCEPT !.second = value, !.at = "finish"]]

Return(value) ==
    IF Len(frames) = 1
    THEN /\ frames' = <<>>
         /\ result' = value
         /\ pc' = "returned"
    ELSE /\ frames' = Delivered(Pop(frames, 1), value)
         /\ UNCHANGED <<result, pc>>

Here == frames[Len(frames)]
Walking == pc = "process_node" /\ Len(frames) > 0

\* impact_vector = impact_vectors[task_counter]
\* A slip: the counter not used, every task given the first vector.
TaskImpactVectorFirst == impact_vectors[1]
TaskImpactVector == impact_vectors[task_counter + 1]

\* if isinstance(node, Token): the task dictionary
ProcessToken ==
    /\ Walking
    /\ Here.at = "call"
    /\ IsToken(Here.node)
    /\ IF task_counter >= Len(impact_vectors)
       THEN \* impact_vectors[task_counter] is out of range
            /\ pc' = "raised"
            /\ UNCHANGED <<id_counter, task_counter, frames, result, draws>>
       ELSE /\ id_counter' = id_counter + 1
            /\ task_counter' = task_counter + 1
            /\ draws' = Append(draws, Draw("duration", id_counter))
            /\ \E duration \in duration_interval[1]..duration_interval[2] :
                Return([type |-> "task", id |-> id_counter, duration |-> duration,
                        impacts |-> Impacts(TaskImpactVector)])
    /\ UNCHANGED <<choice_distribution, duration_interval, total_tasks, impact_vectors, vecVars>>

\* A slip: the task Tree takes an id of its own before its Token does.
ProcessTaskCounting ==
    /\ pc = "process_node"
    /\ Len(frames) > 0
    /\ frames[Len(frames)].at = "call"
    /\ IsTree(frames[Len(frames)].node)
    /\ frames[Len(frames)].node.data = "task"
    /\ frames' = [frames EXCEPT ![Len(frames)] = Frame(frames[Len(frames)].node.children[1])]
    /\ id_counter' = id_counter + 1
    /\ UNCHANGED <<pc, choice_distribution, duration_interval, total_tasks, impact_vectors,
                   task_counter, result, draws, vecVars>>

\* node.data == 'task': return process_node(node.children[0])
ProcessTask ==
    /\ Walking
    /\ Here.at = "call"
    /\ IsTree(Here.node)
    /\ Here.node.data = "task"
    /\ frames' = [frames EXCEPT ![Len(frames)] = Frame(Here.node.children[1])]
    /\ UNCHANGED <<pc, choice_distribution, duration_interval, total_tasks, impact_vectors, id_counter,
                   task_counter, result, draws, vecVars>>

\* node.data == 'sequential' / 'parallel': the id, then the first child
Composite(data, type) ==
    /\ Walking
    /\ Here.at = "call"
    /\ IsTree(Here.node)
    /\ Here.node.data = data
    /\ id_counter' = id_counter + 1
    /\ frames' = Append([frames EXCEPT ![Len(frames)] =
                            [Here EXCEPT !.type = type, !.id = id_counter, !.at = "first"]],
                        Frame(Here.node.children[1]))
    /\ UNCHANGED <<pc, choice_distribution, duration_interval, total_tasks, impact_vectors, task_counter,
                   result, draws, vecVars>>
ProcessSequential == Composite("sequential", "sequence")
ProcessParallel == Composite("parallel", "parallel")

\* node.data == 'xor': the Bernoulli trial, the id, then the first child
ProcessXor ==
    /\ Walking
    /\ Here.at = "call"
    /\ IsTree(Here.node)
    /\ Here.node.data = "xor"
    /\ \E r \in RandomDraws :
        LET is_choice == Less(r, choice_distribution) IN
        frames' = Append([frames EXCEPT ![Len(frames)] =
                            [Here EXCEPT !.type = IF is_choice THEN "choice" ELSE "nature",
                                         !.is_choice = is_choice,
                                         !.id = id_counter, !.at = "first"]],
                         Frame(Here.node.children[1]))
    /\ id_counter' = id_counter + 1
    /\ draws' = Append(draws, Draw("is_choice", id_counter))
    /\ UNCHANGED <<pc, choice_distribution, duration_interval, total_tasks, impact_vectors, task_counter,
                   result, vecVars>>

\* Both children of a sequential or parallel node returned: return the dictionary.
FinishSequence ==
    /\ Walking
    /\ Here.at = "finish"
    /\ Here.type = "sequence"
    /\ Return([type |-> "sequence", id |-> Here.id, head |-> Here.first, tail |-> Here.second])
    /\ UNCHANGED <<choice_distribution, duration_interval, total_tasks, impact_vectors, id_counter,
                   task_counter, draws, vecVars>>
FinishParallel ==
    /\ Walking
    /\ Here.at = "finish"
    /\ Here.type = "parallel"
    /\ Return([type |-> "parallel", id |-> Here.id,
               first_split |-> Here.first, second_split |-> Here.second])
    /\ UNCHANGED <<choice_distribution, duration_interval, total_tasks, impact_vectors, id_counter,
                   task_counter, draws, vecVars>>

\* A slip: "if is_choice" for "if not is_choice", the probability drawn for
\* the choice nodes.
FinishXorInverted ==
    /\ pc = "process_node"
    /\ Len(frames) > 0
    /\ frames[Len(frames)].at = "finish"
    /\ frames[Len(frames)].type \in {"choice", "nature"}
    /\ IF ~frames[Len(frames)].is_choice
       THEN /\ Return([type |-> frames[Len(frames)].type, id |-> frames[Len(frames)].id,
                       true |-> frames[Len(frames)].first, false |-> frames[Len(frames)].second])
            /\ UNCHANGED draws
       ELSE /\ \E probability \in RandomDraws :
                Return([type |-> frames[Len(frames)].type, id |-> frames[Len(frames)].id,
                        true |-> frames[Len(frames)].first, false |-> frames[Len(frames)].second,
                        probability |-> probability])
            /\ draws' = Append(draws, Draw("probability", frames[Len(frames)].id))
    /\ UNCHANGED <<choice_distribution, duration_interval, total_tasks, impact_vectors, id_counter,
                   task_counter, vecVars>>

\* Both children of an xor node returned: the probability of a nature node is
\* drawn, and the dictionary returned.
FinishXor ==
    /\ Walking
    /\ Here.at = "finish"
    /\ Here.type \in {"choice", "nature"}
    /\ IF Here.is_choice
       THEN /\ Return([type |-> Here.type, id |-> Here.id,
                       true |-> Here.first, false |-> Here.second])
            /\ UNCHANGED draws
       ELSE /\ \E probability \in RandomDraws :
                Return([type |-> Here.type, id |-> Here.id,
                        true |-> Here.first, false |-> Here.second,
                        probability |-> probability])
            /\ draws' = Append(draws, Draw("probability", Here.id))
    /\ UNCHANGED <<choice_distribution, duration_interval, total_tasks, impact_vectors, id_counter,
                   task_counter, vecVars>>

\* A Tree of any other kind (the empty region): no branch returns, so the call
\* returns None.
ProcessOther ==
    /\ Walking
    /\ Here.at = "call"
    /\ IsTree(Here.node)
    /\ Here.node.data \notin {"task", "sequential", "parallel", "xor"}
    /\ Return(None)
    /\ UNCHANGED <<choice_distribution, duration_interval, total_tasks, impact_vectors, id_counter,
                   task_counter, draws, vecVars>>

(***************************************************************************)
(* process_to_dot(region_dict).  A line of the DOT text is modelled by its *)
(* parts: a node statement by the node identifier f"{type}{id}" (the pair  *)
(* of type and id) and the parts of its label, an edge statement by its    *)
(* two node identifiers and its label.                                     *)
(***************************************************************************)
NodeId(region) == <<region.type, region.id>>
NoFloat == Float(-1, 0)
Label(node_id, duration, impacts, p) ==
    [node_id |-> node_id, duration |-> duration, impacts |-> impacts, p |-> p]
NodeStatement(node_id, label) ==
    [stmt |-> "node", from |-> node_id, to |-> node_id, label |-> label, text |-> ""]
EdgeStatement(from, to, edge_label) ==
    [stmt |-> "edge", from |-> from, to |-> to,
     label |-> Label(from, -1, <<>>, NoFloat), text |-> edge_label]
Verbatim(line) ==
    [stmt |-> "verbatim", from |-> <<"", -1>>, to |-> <<"", -1>>,
     label |-> Label(<<"", -1>>, -1, <<>>, NoFloat), text |-> line]

\* The edge labels of a parallel node, as mistaken for its keys.
ParallelEdgeLabelsAsKeys == <<"first_split", "second_split">>
ParallelEdgeLabels == <<"first", "second">>

\* The keys of the two children of a region, and the labels of the two edges.
ChildKeys(region) ==
    CASE region.type = "sequence" -> <<"head", "tail">>
      [] region.type = "parallel" -> <<"first_split", "second_split">>
      [] region.type \in {"choice", "nature"} -> <<"true", "false">>
      [] OTHER -> <<>>
EdgeLabels(region) ==
    CASE region.type = "sequence" -> <<"head", "tail">>
      [] region.type = "parallel" -> ParallelEdgeLabels
      [] region.type \in {"choice", "nature"} -> <<"true", "false">>
      [] OTHER -> <<>>
ChildOf(region, key) ==
    CASE key = "head" -> region.head
      [] key = "tail" -> region.tail
      [] key = "first_split" -> region.first_split
      [] key = "second_split" -> region.second_split
      [] key = "true" -> region.true
      [] key = "false" -> region.false

\* add_node(region) subscripts None (region['type'], region[key]['type']).
RECURSIVE AddNodeRaises(_)
AddNodeRaises(region) ==
    \/ region = None
    \/ \E k \in 1..Len(ChildKeys(region)) :
        \/ ChildOf(region, ChildKeys(region)[k]) = None
        \/ AddNodeRaises(ChildOf(region, ChildKeys(region)[k]))

\* The lines add_node(region) appends to dot_lines.
RECURSIVE add_node(_)
add_node(region) ==
    LET node_id == NodeId(region)
        label == CASE region.type = "task" ->
                        Label(node_id, region.duration, region.impacts, NoFloat)
                   [] region.type = "nature" ->
                        Label(node_id, -1, <<>>, region.probability)
                   [] OTHER -> Label(node_id, -1, <<>>, NoFloat)
        keys == ChildKeys(region)
    IN <<NodeStatement(node_id, label)>> \o
       (IF Len(keys) = 0 THEN <<>>
        ELSE <<EdgeStatement(node_id, NodeId(ChildOf(region, keys[1])), EdgeLabels(region)[1]),
               EdgeStatement(node_id, NodeId(ChildOf(region, keys[2])), EdgeLabels(region)[2])>>
             \o add_node(ChildOf(region, keys[1]))
             \o add_node(ChildOf(region, keys[2])))

process_to_dot(region_dict) ==
    IF AddNodeRaises(region_dict) THEN [status |-> "TypeError", lines |-> <<>>]
    ELSE [status |-> "returned",
          lines |-> <<Verbatim("digraph G {"), Verbatim("    node [shape=box];")>>
                    \o add_node(region_dict) \o <<Verbatim("}")>>]

DotNotRun == [status |-> "not run", lines |-> <<>>]

\* A caller renders the Process Instance translate_to_cpi returned.
ProcessToDot ==
    /\ pc = "returned"
    /\ dot_lines = DotNotRun
    /\ dot_lines' = process_to_dot(result)

(***************************************************************************)
(* generate_cpi_bundle(x, y, z_range, impact_dims_range, generation_modes, *)
(* duration_interval, choice_distributions) and get_process_from_file.     *)
(* A line of the file is modelled by its tokens (line.strip() and the      *)
(* grammar's %ignore of whitespace leave nothing else).  The JSON array    *)
(* json.dump writes is modelled by the list it serialises: every value in  *)
(* it is a dict, list, tuple, str, int, float or None.                     *)
(***************************************************************************)
NoFile == <<"no file">>
NotWritten == [status |-> "not written", cpis |-> <<>>]

\* PARSER.parse(text) / parser.parse(process_str) on a whole text.
RECURSIVE ParseFrom(_, _)
ParseFrom(st, toks) ==
    IF Len(toks) = 0 THEN Advance(st, EndOfInput)
    ELSE LET r == Advance(st, toks[1]) IN
         IF r.status = "parsing" THEN ParseFrom(r.stack, Tail(toks)) ELSE r

\* range(r[0], r[1] + 1), as a list
Range(r) == [i \in 1..(r[2] - r[1] + 1) |-> r[1] + i - 1]
\* itertools.product of four lists: the last varies fastest.
Product(zs, ds, cs, ms) ==
    [i \in 1..(Len(zs) * Len(ds) * Len(cs) * Len(ms)) |->
        [z |-> zs[((i - 1) \div (Len(ds) * Len(cs) * Len(ms))) + 1],
         num_impacts |-> ds[(((i - 1) \div (Len(cs) * Len(ms))) % Len(ds)) + 1],
         choice_dist |-> cs[(((i - 1) \div Len(ms)) % Len(cs)) + 1],
         mode |-> ms[((i - 1) % Len(ms)) + 1]]]
combinations ==
    Product(Range(args.z_range), Range(args.impact_dims_range),
            args.choice_distributions, args.generation_modes)

\* get_process_from_file(x, y, z): the z-th line, or the error raised.
get_process_from_file(z) ==
    IF file = NoFile THEN [status |-> "FileNotFoundError", line |-> <<>>]
    ELSE IF z \in 1..Len(file) THEN [status |-> "returned", line |-> file[z]]
    ELSE [status |-> "ValueError", line |-> <<>>]

Metadata(c) ==
    [x |-> args.x, y |-> args.y, z |-> c.z, num_impacts |-> c.num_impacts,
     choice_distribution |-> c.choice_dist, generation_mode |-> c.mode,
     duration_interval |-> args.duration_interval]
\* cpi_dict['metadata'] = {...}
WithMetadata(cpi_dict, metadata) ==
    [key \in DOMAIN cpi_dict \cup {"metadata"} |->
        IF key = "metadata" THEN metadata ELSE cpi_dict[key]]
Attempt(c, outcome, cpi_dict) == [combination |-> c, outcome |-> outcome, cpi |-> cpi_dict]

BundleIdle ==
    /\ args = [x |-> 1, y |-> 1, z_range |-> <<1, 0>>, impact_dims_range |-> <<1, 0>>,
               generation_modes |-> <<>>, duration_interval |-> <<1, 1>>,
               choice_distributions |-> <<>>]
    /\ file = NoFile
    /\ combination = 1
    /\ cpi_bundle = <<>>
    /\ attempts = <<>>
    /\ bundle_file = NotWritten
    /\ bundle_pc = "idle"

\* The loop body up to the call of translate_to_cpi: get_process_from_file,
\* and translate_to_cpi's parse of the line.  An error raised by
\* get_process_from_file is caught, and the loop goes on.
GetProcessFromFile ==
    /\ bundle_pc = "loop"
    /\ combination <= Len(combinations)
    /\ LET c == combinations[combination]
           read == get_process_from_file(c.z)
           r == ParseFrom(<<>>, read.line)
       IN IF read.status # "returned"
          THEN /\ attempts' = Append(attempts, Attempt(c, read.status, None))
               /\ combination' = combination + 1
               /\ UNCHANGED <<parserVars, buildVars, bundle_pc>>
          ELSE /\ text' = read.line
               /\ stack' = r.stack
               /\ status' = r.status
               /\ tree' = IF r.status = "ok" THEN r.stack[1].val ELSE NoTree
               /\ pc' = "parse"
               /\ frames' = <<>>
               /\ result' = NoResult
               /\ draws' = <<>>
               /\ bundle_pc' = "call"
               /\ UNCHANGED <<choice_distribution, duration_interval, total_tasks, impact_vectors,
                              id_counter, task_counter, attempts, combination>>
    /\ UNCHANGED <<args, file, cpi_bundle, bundle_file>>

\* translate_to_cpi as the loop body calls it.
TranslateToCpi ==
    /\ bundle_pc = "call"
    /\ \/ ParseRaises
       \/ CountTasks({combinations[combination].choice_dist}, {args.duration_interval},
                     {combinations[combination].num_impacts}, {combinations[combination].mode})
       \/ GenerateVector /\ UNCHANGED buildVars
       \/ ReturnVectors /\ UNCHANGED buildVars
       \/ VectorsRaise
       \/ CallProcessNode
       \/ ProcessToken
       \/ ProcessTask
       \/ ProcessSequential
       \/ ProcessParallel
       \/ ProcessXor
       \/ ProcessOther
       \/ FinishSequence
       \/ FinishParallel
       \/ FinishXor

\* A slip: the handler leaves the loop.
CaughtBreaking ==
    /\ bundle_pc = "call"
    /\ pc = "raised"
    /\ attempts' = Append(attempts, Attempt(combinations[combination], "raised", None))
    /\ combination' = Len(combinations) + 1
    /\ pc' = "idle"
    /\ bundle_pc' = "loop"
    /\ UNCHANGED <<args, file, cpi_bundle, bundle_file>>

\* except Exception as e: print(...); then pbar.update(1) and the next
\* combination.
Caught ==
    /\ bundle_pc = "call"
    /\ pc = "raised"
    /\ attempts' = Append(attempts, Attempt(combinations[combination], "raised", None))
    /\ combination' = combination + 1
    /\ pc' = "idle"
    /\ bundle_pc' = "loop"
    /\ UNCHANGED <<args, file, cpi_bundle, bundle_file>>

\* translate_to_cpi returned: the metadata, and the append.  Subscripting
\* None raises TypeError, which is caught like any other error.
AttachMetadata ==
    /\ bundle_pc = "call"
    /\ pc = "returned"
    /\ LET c == combinations[combination] IN
       IF result = None
       THEN /\ attempts' = Append(attempts, Attempt(c, "TypeError", None))
            /\ UNCHANGED cpi_bundle
       ELSE /\ attempts' = Append(attempts, Attempt(c, "ok", result))
            /\ cpi_bundle' = Append(cpi_bundle, WithMetadata(result, Metadata(c)))
    /\ combination' = combination + 1
    /\ pc' = "idle"
    /\ bundle_pc' = "loop"
    /\ UNCHANGED <<args, file, bundle_file>>

\* The loop is over: json.dump(cpi_bundle, f) and return bundle_path.
WriteBundle ==
    /\ bundle_pc = "loop"
    /\ combination > Len(combinations)
    /\ bundle_file' = [status |-> "written", cpis |-> cpi_bundle]
    /\ bundle_pc' = "returned"
    /\ UNCHANGED <<args, file, combination, cpi_bundle, attempts>>

(***************************************************************************)
(* The specifications.                                                     *)
(***************************************************************************)
Idle ==
    /\ pc = "idle"
    /\ InitBuild
    /\ dot_lines = DotNotRun
    /\ BundleIdle

\* PARSER.parse on its own.
ParseBound == {Bound(ParseMaxOps, ParseMaxGroups, ParseMaxLeaves, ParseMaxEmpty)}
InitParse == InitParser /\ InitMetric /\ VecIdle /\ Idle
NextParse ==
    \/ FeedToken(Alphabet, ParseBound) /\ UNCHANGED <<metricVars, vecVars, buildVars, dot_lines, bundleVars>>
    \/ FeedEnd(ParseBound) /\ UNCHANGED <<metricVars, vecVars, buildVars, dot_lines, bundleVars>>
SpecParse == InitParse /\ [][NextParse]_vars

\* The two metrics.  Texts of up to MetricMaxOps operators with every operand
\* present, and the shorter texts of the parser's bound, which may leave
\* operands out.
MetricBound == {Bound(MetricMaxOps, MetricMaxOps - 1, MetricMaxOps + 1, 0)} \cup ParseBound
InitMetrics == InitParser /\ InitMetric /\ VecIdle /\ Idle
NextMetrics ==
    \/ FeedToken(Names \cup Punctuation, MetricBound)
        /\ UNCHANGED <<metricVars, vecVars, buildVars, dot_lines, bundleVars>>
    \/ FeedEnd(MetricBound) /\ UNCHANGED <<metricVars, vecVars, buildVars, dot_lines, bundleVars>>
    \/ MaxNestedXor /\ UNCHANGED <<buildVars, dot_lines, bundleVars>>
    \/ MaxIndependentXor /\ UNCHANGED <<buildVars, dot_lines, bundleVars>>
SpecMetrics == InitMetrics /\ [][NextMetrics]_vars

\* generate_vectors(num_vec, dim, mode) called on its own.
InitVec ==
    /\ InitParser
    /\ InitMetric
    /\ Idle
    /\ num_vec \in -1..VecMaxCount
    /\ dim \in -1..VecMaxDim
    /\ mode \in Modes
    /\ InitVectors
    /\ vstatus = "running"
NextVec ==
    \/ GenerateVector /\ UNCHANGED <<parserVars, metricVars, buildVars, dot_lines, bundleVars>>
    \/ ReturnVectors /\ UNCHANGED <<parserVars, metricVars, buildVars, dot_lines, bundleVars>>
SpecVec == InitVec /\ [][NextVec]_vars

\* translate_to_cpi, with every choice distribution and two durations; the
\* impact vectors are empty (num_impacts = 0) or refused (num_impacts = -1).
BuildBound == {Bound(BuildMaxOps, 1, BuildMaxOps + 1, 1)}
ChoiceDistributions == {Zero, Float(5, 1), Float(1, 0)}
InitTranslate ==
    /\ InitParser
    /\ InitMetric
    /\ VecIdle
    /\ pc = "parse"
    /\ InitBuild
    /\ dot_lines = DotNotRun
    /\ BundleIdle
ProcessNode ==
    \/ ProcessToken
    \/ ProcessTask
    \/ ProcessSequential
    \/ ProcessParallel
    \/ ProcessXor
    \/ ProcessOther
    \/ FinishSequence
    \/ FinishParallel
    \/ FinishXor
NextBuild ==
    \/ FeedToken(Names \cup Punctuation, BuildBound)
        /\ UNCHANGED <<metricVars, vecVars, buildVars, dot_lines, bundleVars>>
    \/ FeedEnd(BuildBound) /\ UNCHANGED <<metricVars, vecVars, buildVars, dot_lines, bundleVars>>
    \/ ParseRaises /\ UNCHANGED <<parserVars, metricVars, dot_lines, bundleVars>>
    \/ CountTasks(ChoiceDistributions, {<<1, 2>>}, {-1, 0}, {"random", "bagging_remove"})
        /\ UNCHANGED <<parserVars, metricVars, dot_lines, bundleVars>>
    \/ GenerateVector /\ UNCHANGED <<parserVars, metricVars, buildVars, dot_lines, bundleVars>>
    \/ ReturnVectors /\ UNCHANGED <<parserVars, metricVars, buildVars, dot_lines, bundleVars>>
    \/ VectorsRaise /\ UNCHANGED <<parserVars, metricVars, dot_lines, bundleVars>>
    \/ CallProcessNode /\ UNCHANGED <<parserVars, metricVars, dot_lines, bundleVars>>
    \/ ProcessNode /\ UNCHANGED <<parserVars, metricVars, dot_lines, bundleVars>>
SpecBuild == InitTranslate /\ [][NextBuild]_vars

\* translate_to_cpi with impact vectors of up to ImpactMaxDim components, on
\* shorter texts, and process_to_dot on what it returned.
ImpactBound == {Bound(ImpactMaxOps, 1, ImpactMaxOps + 1, 1)}
NextImpacts ==
    \/ FeedToken(Names \cup Punctuation, ImpactBound)
        /\ UNCHANGED <<metricVars, vecVars, buildVars, dot_lines, bundleVars>>
    \/ FeedEnd(ImpactBound) /\ UNCHANGED <<metricVars, vecVars, buildVars, dot_lines, bundleVars>>
    \/ ParseRaises /\ UNCHANGED <<parserVars, metricVars, dot_lines, bundleVars>>
    \/ CountTasks({Float(5, 1)}, {<<1, 1>>}, -1..ImpactMaxDim, {"random", "bagging_remove"})
        /\ UNCHANGED <<parserVars, metricVars, dot_lines, bundleVars>>
    \/ GenerateVector /\ UNCHANGED <<parserVars, metricVars, buildVars, dot_lines, bundleVars>>
    \/ ReturnVectors /\ UNCHANGED <<parserVars, metricVars, buildVars, dot_lines, bundleVars>>
    \/ VectorsRaise /\ UNCHANGED <<parserVars, metricVars, dot_lines, bundleVars>>
    \/ CallProcessNode /\ UNCHANGED <<parserVars, metricVars, dot_lines, bundleVars>>
    \/ ProcessNode /\ UNCHANGED <<parserVars, metricVars, dot_lines, bundleVars>>
    \/ ProcessToDot /\ UNCHANGED <<parserVars, metricVars, vecVars, buildVars, bundleVars>>
SpecImpacts == InitTranslate /\ [][NextImpacts]_vars

\* generate_cpi_bundle over a file of up to BundleMaxLines lines.
Lines == {<<>>, <<"a", ",">>, <<"a", "b">>, <<"a", "^", "b">>, <<"a", "||", "b">>}
Files == {NoFile} \cup UNION {[1..n -> Lines] : n \in 0..BundleMaxLines}
BundleArgs ==
    [x : {1}, y : {1}, z_range : {<<1, 1>>, <<1, BundleMaxLines>>},
     impact_dims_range : {<<0, 0>>, <<-1, 0>>},
     generation_modes : {<<"random">>, <<"random", "bagging_remove">>},
     duration_interval : {<<1, 1>>},
     choice_distributions : {<<Float(5, 1)>>}]
InitBundle ==
    /\ InitParser
    /\ InitMetric
    /\ VecIdle
    /\ pc = "idle"
    /\ InitBuild
    /\ dot_lines = DotNotRun
    /\ args \in BundleArgs
    /\ file \in Files
    /\ combination = 1
    /\ cpi_bundle = <<>>
    /\ attempts = <<>>
    /\ bundle_file = NotWritten
    /\ bundle_pc = "loop"
NextBundle ==
    \/ GetProcessFromFile /\ UNCHANGED <<metricVars, vecVars, dot_lines>>
    \/ TranslateToCpi
        /\ UNCHANGED <<parserVars, metricVars, dot_lines, args, file, combination, cpi_bundle,
                       attempts, bundle_file, bundle_pc>>
    \/ Caught
        /\ UNCHANGED <<parserVars, metricVars, vecVars, dot_lines, choice_distribution,
                       duration_interval, total_tasks, impact_vectors, id_counter, task_counter,
                       frames, result, draws>>
    \/ AttachMetadata
        /\ UNCHANGED <<parserVars, metricVars, vecVars, dot_lines, choice_distribution,
                       duration_interval, total_tasks, impact_vectors, id_counter, task_counter,
                       frames, result, draws>>
    \/ WriteBundle /\ UNCHANGED <<parserVars, metricVars, vecVars, buildVars, dot_lines>>
SpecBundle == InitBundle /\ [][NextBundle]_vars

(***************************************************************************)
(* The expression AST the properties are stated over.                      *)
(***************************************************************************)
Task(name) == Tree("task", <<Token(name)>>)
Sequential(left, right) == Tree("sequential", <<left, right>>)
Parallel(left, right) == Tree("parallel", <<left, right>>)
Xor(left, right) == Tree("xor", <<left, right>>)
IsLeaf(node) == IsToken(node) \/ node.data = "task" \/ Len(node.children) = 0
Larger(x, y) == IF x >= y THEN x ELSE y
ErrorKinds == {"UnexpectedToken", "UnexpectedCharacters"}

\* The task names of a tree, left to right.
RECURSIVE Yield(_)
Yield(node) ==
    IF IsToken(node) THEN <<node.value>>
    ELSE IF Len(node.children) = 0 THEN <<>>
    ELSE IF Len(node.children) = 1 THEN Yield(node.children[1])
    ELSE Yield(node.children[1]) \o Yield(node.children[2])
NamesOf(toks) == SelectSeq(toks, LAMBDA tok : tok \in Names)

(***************************************************************************)
(* The Process Instance the properties are stated over.                    *)
(***************************************************************************)
Kids(region) ==
    CASE region.type = "sequence" -> <<region.head, region.tail>>
      [] region.type = "parallel" -> <<region.first_split, region.second_split>>
      [] region.type \in {"choice", "nature"} -> <<region.true, region.false>>
      [] OTHER -> <<>>
\* The nodes of an instance in pre-order; a None child is no node.
RECURSIVE NodesOf(_)
NodesOf(region) ==
    IF region.type \in {"None", "no result"} THEN <<>>
    ELSE IF Len(Kids(region)) = 0 THEN <<region>>
    ELSE <<region>> \o NodesOf(Kids(region)[1]) \o NodesOf(Kids(region)[2])
IdsOf(region) == {NodesOf(region)[i].id : i \in 1..Len(NodesOf(region))}
TasksOf(region) == SelectSeq(NodesOf(region), LAMBDA n : n.type = "task")
\* The AST nodes of a parse tree: Task leaves and Sequential, Parallel and Xor
\* nodes.
RECURSIVE AstNodeCount(_)
AstNodeCount(node) ==
    IF IsToken(node) \/ node.data = "task" THEN 1
    ELSE IF Len(node.children) = 0 THEN 0
    ELSE 1 + AstNodeCount(node.children[1]) + AstNodeCount(node.children[2])
LeafCount(node) == Len(Yield(node))

(***************************************************************************)
(* C1.  The ids one translate_to_cpi call assigns are pairwise distinct    *)
(* and form exactly the range [0, node_count), node_count being the number *)
(* of AST nodes (Task leaves plus Sequential, Parallel and Xor nodes);     *)
(* they are given in one pre-order walk: the k-th node in pre-order has id *)
(* k - 1, every composite node's id is smaller than the ids of all its     *)
(* descendants and every id in the left child's subtree is smaller than    *)
(* every id in the right child's subtree.                                  *)
(***************************************************************************)
RECURSIVE PreOrderIds(_)
PreOrderIds(region) ==
    Len(Kids(region)) = 0 \/ region.type \in {"None", "no result"} \/
        /\ \A d \in IdsOf(Kids(region)[1]) \cup IdsOf(Kids(region)[2]) : region.id < d
        /\ \A l \in IdsOf(Kids(region)[1]) : \A r \in IdsOf(Kids(region)[2]) : l < r
        /\ PreOrderIds(Kids(region)[1])
        /\ PreOrderIds(Kids(region)[2])

C1_PreOrderIds ==
    pc = "returned" =>
        /\ Len(NodesOf(result)) = AstNodeCount(tree)
        /\ Cardinality(IdsOf(result)) = Len(NodesOf(result))
        /\ IdsOf(result) = 0..(AstNodeCount(tree) - 1)
        /\ \A k \in 1..Len(NodesOf(result)) : NodesOf(result)[k].id = k - 1
        /\ PreOrderIds(result)
        /\ id_counter = AstNodeCount(tree)

C1_Witness ==
    /\ pc = "returned"
    /\ text = <<"a", "^", "b", ",", "c">>
    /\ result.type = "choice"
    /\ result.id = 0
    /\ result.true.id = 1
    /\ result.false.type = "sequence"
    /\ result.false.id = 2
    /\ result.false.head.id = 3
    /\ result.false.tail.id = 4

(***************************************************************************)
(* C2.  The vector batch is generated once, before the traversal starts,   *)
(* with count equal to the leaf count of the AST, and the i-th Task leaf   *)
(* visited in pre-order gets exactly the i-th vector of the batch as its   *)
(* impacts: none is skipped, reused or left unconsumed, and the impacts    *)
(* mapping has one key per vector component in positional order.           *)
(***************************************************************************)
C2_VectorsInLeafOrder ==
    /\ pc \in {"process_node", "returned"} =>
        /\ vstatus = "returned"
        /\ impact_vectors = vectors
        /\ num_vec = LeafCount(tree)
        /\ Len(impact_vectors) = LeafCount(tree)
        /\ task_counter <= Len(impact_vectors)
    /\ pc = "returned" =>
        /\ task_counter = Len(impact_vectors)
        /\ Len(TasksOf(result)) = Len(impact_vectors)
        /\ \A i \in 1..Len(TasksOf(result)) :
            LET impacts == TasksOf(result)[i].impacts IN
            /\ Len(impacts) = Len(impact_vectors[i])
            /\ \A p \in 1..Len(impacts) :
                impacts[p] = [key |-> p, value |-> impact_vectors[i][p]]

C2_Witness ==
    /\ pc = "returned"
    /\ text = <<"a", "^", "b">>
    /\ impact_vectors = <<<<Float(5, 1)>>, <<Zero>>>>
    /\ result.true.impacts = <<[key |-> 1, value |-> Float(5, 1)]>>
    /\ result.false.impacts = <<[key |-> 1, value |-> Zero]>>

(***************************************************************************)
(* C5.  With choice_distribution = 1.0 translate_to_cpi produces no node   *)
(* of kind nature, with choice_distribution = 0.0 no node of kind choice,  *)
(* whatever the draws; in both cases (and in every other) every Xor node   *)
(* of the AST yields exactly one choice-or-nature node.                    *)
(***************************************************************************)
One == Float(1, 0)
KindsOf(region) == {NodesOf(region)[i].type : i \in 1..Len(NodesOf(region))}
KindsUnderWay == {frames[i].type : i \in 1..Len(frames)} \cup UNION {
    KindsOf(frames[i].first) \cup KindsOf(frames[i].second) : i \in 1..Len(frames)}
\* The instance has the shape of the tree, an Xor node being one choice or
\* nature node.
RECURSIVE Mirrors(_, _)
Mirrors(region, node) ==
    IF IsToken(node) \/ node.data = "task" THEN region.type = "task"
    ELSE IF Len(node.children) = 0 THEN region.type = "None"
    ELSE /\ region.type \in (CASE node.data = "xor" -> {"choice", "nature"}
                               [] node.data = "sequential" -> {"sequence"}
                               [] node.data = "parallel" -> {"parallel"})
         /\ Mirrors(Kids(region)[1], node.children[1])
         /\ Mirrors(Kids(region)[2], node.children[2])

C5_ChoiceOrNature ==
    pc \in {"process_node", "returned"} =>
        /\ choice_distribution = One => "nature" \notin KindsUnderWay \cup KindsOf(result)
        /\ choice_distribution = Zero => "choice" \notin KindsUnderWay \cup KindsOf(result)
        /\ pc = "returned" => Mirrors(result, tree)

C5_Witness ==
    /\ pc = "returned"
    /\ choice_distribution = One
    /\ text = <<"a", "^", "b", "^", "c">>
    /\ result.type = "choice"
    /\ result.true.type = "choice"

(***************************************************************************)
(* C10.  process_to_dot emits exactly one labelled node statement per tree *)
(* node and exactly one labelled edge per parent/child relation; a task    *)
(* node's label carries its duration and impacts, a nature node's label    *)
(* its probability.  The edge labels are head and tail for a sequence and  *)
(* true and false for a choice or nature node; for a parallel node the     *)
(* claim gives first_split and second_split, the code first and second.    *)
(***************************************************************************)
\* The instance is a node and so is every child of every node of it.
Populated(region) ==
    /\ region.type # "None"
    /\ \A i \in 1..Len(NodesOf(region)) :
        \A k \in 1..Len(Kids(NodesOf(region)[i])) : Kids(NodesOf(region)[i])[k].type # "None"
Statements(kind) == SelectSeq(dot_lines.lines, LAMBDA line : line.stmt = kind)
EdgeNames(region, parallel_names) ==
    CASE region.type = "sequence" -> <<"head", "tail">>
      [] region.type = "parallel" -> parallel_names
      [] OTHER -> <<"true", "false">>
Relations(region) ==
    {<<n, k>> : n \in 1..Len(NodesOf(region)), k \in 1..2} \cap
    {<<n, k>> \in (1..Len(NodesOf(region))) \X (1..2) : Len(Kids(NodesOf(region)[n])) = 2}
DotRenders(parallel_names) ==
    LET nodes == NodesOf(result)
        node_statements == Statements("node")
        edge_statements == Statements("edge")
    IN dot_lines.status = "returned" =>
        /\ Len(node_statements) = Len(nodes)
        /\ \A n \in 1..Len(nodes) :
            /\ Cardinality({s \in 1..Len(node_statements) :
                    node_statements[s].from = <<nodes[n].type, nodes[n].id>>}) = 1
            /\ \E s \in 1..Len(node_statements) :
                /\ node_statements[s].from = <<nodes[n].type, nodes[n].id>>
                /\ nodes[n].type = "task" =>
                    /\ node_statements[s].label.duration = nodes[n].duration
                    /\ node_statements[s].label.impacts = nodes[n].impacts
                /\ nodes[n].type = "nature" =>
                    node_statements[s].label.p = nodes[n].probability
        /\ Len(edge_statements) = Cardinality(Relations(result))
        /\ \A rel \in Relations(result) :
            LET parent == nodes[rel[1]]
                child == Kids(parent)[rel[2]]
            IN Cardinality({s \in 1..Len(edge_statements) :
                    /\ edge_statements[s].from = <<parent.type, parent.id>>
                    /\ edge_statements[s].to = <<child.type, child.id>>
                    /\ edge_statements[s].text = EdgeNames(parent, parallel_names)[rel[2]]}) = 1
DotRuns == (dot_lines # DotNotRun /\ Populated(result)) => dot_lines.status = "returned"

\* The claim as made: a parallel node's edges are labelled first_split and
\* second_split.
C10_DotAsClaimed == DotRuns /\ DotRenders(<<"first_split", "second_split">>)

\* The claim as amended: a parallel node's edges are labelled first and second.
C10_DotAmended == DotRuns /\ DotRenders(<<"first", "second">>)

C10_Witness ==
    /\ dot_lines.status = "returned"
    /\ result.type = "parallel"
    /\ Len(result.first_split.impacts) = 1
    /\ Len(Statements("node")) = 3
    /\ Len(Statements("edge")) = 2
    /\ Statements("edge")[1].text = "first"
    /\ Statements("edge")[2].text = "second"

(***************************************************************************)
(* C11.  The draws translate_to_cpi makes from the random source for one   *)
(* nature node and for its descendants.  The claim: the node's probability *)
(* is drawn right after its Bernoulli trial and before every draw          *)
(* (duration, Xor resolution, nature probability) made for a descendant.   *)
(* The code: the Bernoulli trial comes before every draw made for a        *)
(* descendant and the probability, drawn exactly once, after all of them.  *)
(***************************************************************************)
DrawsFor(kind, id) == {i \in 1..Len(draws) : draws[i] = Draw(kind, id)}
\* The positions in the log of the draws made for the nodes of an instance.
DrawsWithin(region) ==
    UNION {DrawsFor(kind, id) : kind \in {"duration", "is_choice", "probability"},
                                id \in IdsOf(region)}
DescendantDraws(region) == DrawsWithin(Kids(region)[1]) \cup DrawsWithin(Kids(region)[2])
NatureNodes == SelectSeq(NodesOf(result), LAMBDA n : n.type = "nature")

\* The claim as made: the probability right after the trial, before the
\* children; stated of the instances every child of which is a node.
C11_ProbabilityBeforeChildren ==
    (pc = "returned" /\ Populated(result)) =>
        \A k \in 1..Len(NatureNodes) :
            LET n == NatureNodes[k] IN
            /\ Cardinality(DrawsFor("is_choice", n.id)) = 1
            /\ Cardinality(DrawsFor("probability", n.id)) = 1
            /\ \A t \in DrawsFor("is_choice", n.id) : \A p \in DrawsFor("probability", n.id) :
                /\ p = t + 1
                /\ \A d \in DescendantDraws(n) : p < d

\* The claim as amended: the trial before the children, the probability after
\* them.
C11_ProbabilityAfterChildren ==
    pc = "returned" =>
        /\ \A k \in 1..Len(NatureNodes) :
            LET n == NatureNodes[k] IN
            /\ Cardinality(DrawsFor("is_choice", n.id)) = 1
            /\ Cardinality(DrawsFor("probability", n.id)) = 1
            /\ \A t \in DrawsFor("is_choice", n.id) : \A p \in DrawsFor("probability", n.id) :
                /\ t < p
                /\ \A d \in DescendantDraws(n) : t < d /\ d < p
                /\ p - t = Cardinality(DescendantDraws(n)) + 1
        /\ \A i \in 1..Len(draws) :
            draws[i].kind = "probability" =>
                \E k \in 1..Len(NatureNodes) : NatureNodes[k].id = draws[i].id

C11_Witness ==
    /\ pc = "returned"
    /\ text = <<"a", "^", "b", "^", "c">>
    /\ result.type = "nature"
    /\ result.true.type = "nature"
    /\ draws = <<Draw("is_choice", 0), Draw("is_choice", 1), Draw("duration", 2),
                 Draw("duration", 3), Draw("probability", 1), Draw("duration", 4),
                 Draw("probability", 0)>>

(***************************************************************************)
(* C12.  For every input text translate_to_cpi either fails or returns a   *)
(* fully populated Process Instance: what it returns is a node, every node *)
(* is a task, sequence, parallel, choice or nature node, and both children *)
(* of every sequence, parallel, choice and nature node are nodes; also for *)
(* a text to which the grammar's empty region alternative applies.         *)
(***************************************************************************)
InstanceKinds == {"task", "sequence", "parallel", "choice", "nature"}
C12_FullyPopulated ==
    pc = "returned" =>
        /\ result.type \in InstanceKinds
        /\ \A i \in 1..Len(NodesOf(result)) :
            /\ NodesOf(result)[i].type \in InstanceKinds
            /\ \A k \in 1..Len(Kids(NodesOf(result)[i])) :
                Kids(NodesOf(result)[i])[k].type \in InstanceKinds

(***************************************************************************)
(* C13.  In generate_cpi_bundle a failure while reading, parsing or        *)
(* building one combination is confined to it: every combination of the    *)
(* grid is attempted exactly once, in grid order, whatever failed before   *)
(* it; the bundle written holds exactly the instances of the combinations  *)
(* that did not fail, in grid order, each with the metadata of its own     *)
(* parameters; a combination that failed contributes no entry.             *)
(***************************************************************************)
Succeeded == SelectSeq(attempts, LAMBDA a : a.outcome = "ok")
\* What makes a combination fail, on the lines the files hold: no such line,
\* a line that is no expression or an empty one, or a negative number of
\* impacts.
BoundToFail(c) ==
    \/ file = NoFile
    \/ c.z \notin 1..Len(file)
    \/ file[c.z] \in {<<>>, <<"a", "b">>}
    \/ c.num_impacts < 0
HasOwnMetadata(entry, c) ==
    /\ entry.metadata.x = args.x
    /\ entry.metadata.y = args.y
    /\ entry.metadata.z = c.z
    /\ entry.metadata.num_impacts = c.num_impacts
    /\ entry.metadata.choice_distribution = c.choice_dist
    /\ entry.metadata.generation_mode = c.mode
    /\ entry.metadata.duration_interval = args.duration_interval

C13_FailureConfined ==
    /\ bundle_pc \in {"loop", "call", "returned"} =>
        /\ Len(cpi_bundle) = Len(Succeeded)
        /\ \A i \in 1..Len(attempts) :
            /\ attempts[i].combination = combinations[i]
            /\ attempts[i].outcome = "ok" <=> ~BoundToFail(combinations[i])
    /\ bundle_pc = "returned" =>
        /\ Len(attempts) = Len(combinations)
        /\ bundle_file.status = "written"
        /\ Len(bundle_file.cpis) = Len(Succeeded)
        /\ \A j \in 1..Len(Succeeded) :
            LET entry == bundle_file.cpis[j] IN
            /\ DOMAIN entry = DOMAIN Succeeded[j].cpi \cup {"metadata"}
            /\ \A key \in DOMAIN Succeeded[j].cpi : entry[key] = Succeeded[j].cpi[key]
            /\ HasOwnMetadata(entry, Succeeded[j].combination)
            /\ entry.type \in {"sequence", "parallel", "choice", "nature"}

C13_Witness ==
    /\ bundle_pc = "returned"
    /\ file = <<<<"a", "b">>, <<"a", "^", "b">>>>
    /\ args.z_range = <<1, 2>>
    /\ args.impact_dims_range = <<-1, 0>>
    /\ Len(attempts) = 8
    /\ attempts[1].outcome = "raised"
    /\ attempts[5].outcome = "raised"
    /\ attempts[7].outcome = "ok"
    /\ attempts[8].outcome = "ok"
    /\ Len(bundle_file.cpis) = 2
    /\ bundle_file.cpis[1].metadata.generation_mode = "random"
    /\ bundle_file.cpis[2].metadata.generation_mode = "bagging_remove"
    /\ bundle_file.cpis[2].metadata.z = 2

(***************************************************************************)
(* C3.  Parsing malformed text fails with a syntax error and yields no     *)
(* tree: whenever the text read has an operator without an operand, has    *)
(* unbalanced parentheses or is empty, PARSER.parse ends in an error.      *)
(***************************************************************************)
RECURSIVE Depths(_)
Depths(toks) ==
    IF Len(toks) = 0 THEN <<0>>
    ELSE LET d == Depths(SubSeq(toks, 1, Len(toks) - 1))
             last == d[Len(d)]
         IN Append(d, CASE toks[Len(toks)] = "(" -> last + 1
                        [] toks[Len(toks)] = ")" -> last - 1
                        [] OTHER -> last)
Unbalanced(toks) ==
    LET d == Depths(toks) IN d[Len(d)] # 0 \/ \E i \in 1..Len(d) : d[i] < 0
OperatorLacksOperand(toks) ==
    \E i \in 1..Len(toks) :
        /\ toks[i] \in Operators
        /\ \/ i = 1
           \/ i = Len(toks)
           \/ toks[i - 1] \in Operators \cup {"("}
           \/ toks[i + 1] \in Operators \cup {")"}
Malformed(toks) == toks = <<>> \/ OperatorLacksOperand(toks) \/ Unbalanced(toks)

C3_MalformedTextFails ==
    (status # "parsing" /\ Malformed(text)) => (status \in ErrorKinds /\ tree = NoTree)

(***************************************************************************)
(* C8.  Sequential binds tighter than Parallel, Parallel tighter than Xor, *)
(* each operator chains to the left, and only parentheses override this:   *)
(* the five example texts parse to the trees the claim gives, and in the   *)
(* tree of every text without parentheses no node has an operand that      *)
(* binds looser than itself (or, on the right, as loose as itself), and    *)
(* the task names appear in the tree in the order of the text.             *)
(***************************************************************************)
Binding(node) ==
    IF IsLeaf(node) THEN 4
    ELSE CASE node.data = "xor" -> 1
           [] node.data = "parallel" -> 2
           [] node.data = "sequential" -> 3
RECURSIVE PrecedenceShape(_)
PrecedenceShape(node) ==
    IsLeaf(node) \/
        /\ Len(node.children) = 2
        /\ Binding(node.children[1]) >= Binding(node)
        /\ Binding(node.children[2]) > Binding(node)
        /\ PrecedenceShape(node.children[1])
        /\ PrecedenceShape(node.children[2])
ParsesAs(toks, expected) == (status # "parsing" /\ text = toks) => (status = "ok" /\ tree = expected)

C8_Precedence ==
    /\ ParsesAs(<<"a", ",", "b", "^", "c">>, Xor(Sequential(Task("a"), Task("b")), Task("c")))
    /\ ParsesAs(<<"a", "^", "b", "||", "c">>, Xor(Task("a"), Parallel(Task("b"), Task("c"))))
    /\ ParsesAs(<<"a", "||", "b", ",", "c">>, Parallel(Task("a"), Sequential(Task("b"), Task("c"))))
    /\ ParsesAs(<<"a", ",", "b", ",", "c">>, Sequential(Sequential(Task("a"), Task("b")), Task("c")))
    /\ ParsesAs(<<"a", ",", "(", "b", "^", "c", ")">>,
                Sequential(Task("a"), Xor(Task("b"), Task("c"))))
    /\ status = "ok" => Yield(tree) = NamesOf(text)
    /\ (status = "ok" /\ Count(text, {"(", ")"}) = 0) => PrecedenceShape(tree)

C8_Witness ==
    /\ status = "ok"
    /\ text = <<"a", ",", "(", "b", "^", "c", ")">>
    /\ tree = Sequential(Task("a"), Xor(Task("b"), Task("c")))

(***************************************************************************)
(* C6.  max_independent_xor returns the value of the reference recursion:  *)
(* 0 for a leaf, the sum of the children's values for Sequential and       *)
(* Parallel, max(1, max(left, right)) for Xor; Sequential(Xor(a,b),        *)
(* Xor(c,d)) gives 2, Xor(Xor(a,b), c) gives 1, a single leaf gives 0.     *)
(***************************************************************************)
RECURSIVE IndependentCount(_)
IndependentCount(node) ==
    IF IsLeaf(node) THEN 0
    ELSE LET left == IndependentCount(node.children[1])
             right == IndependentCount(node.children[2])
         IN IF node.data = "xor" THEN Larger(1, Larger(left, right)) ELSE left + right
TwoXorsInSequence == <<"(", "a", "^", "b", ")", ",", "(", "c", "^", "d", ")">>
XorInXor == <<"a", "^", "b", "^", "c">>
MetricGives(metric, toks, value) ==
    (metric # NotRun /\ text = toks) => metric = Returned(value)

C6_IndependentXor ==
    /\ independent # NotRun =>
        /\ status = "ok" => independent = Returned(IndependentCount(tree))
        /\ status # "ok" => independent = Raised(status)
    /\ MetricGives(independent, TwoXorsInSequence, 2)
    /\ MetricGives(independent, XorInXor, 1)
    /\ MetricGives(independent, <<"a">>, 0)

C6_Witness ==
    /\ independent = Returned(2)
    /\ text = TwoXorsInSequence
    /\ tree = Sequential(Xor(Task("a"), Task("b")), Xor(Task("c"), Task("d")))

(***************************************************************************)
(* C7.  max_nested_xor returns the value of the reference recursion: 0 for *)
(* a leaf, the maximum of the children's values (not incremented) for      *)
(* Sequential and Parallel, 1 + max(left, right) for Xor; Xor(Xor(a,b), c) *)
(* gives 2, Sequential(Xor(a,b), Xor(c,d)) gives 1, a single leaf gives 0. *)
(***************************************************************************)
RECURSIVE NestedDepth(_)
NestedDepth(node) ==
    IF IsLeaf(node) THEN 0
    ELSE LET left == NestedDepth(node.children[1])
             right == NestedDepth(node.children[2])
         IN IF node.data = "xor" THEN 1 + Larger(left, right) ELSE Larger(left, right)

C7_NestedXor ==
    /\ nested # NotRun =>
        /\ status = "ok" => nested = Returned(NestedDepth(tree))
        /\ status # "ok" => nested = Raised(status)
    /\ MetricGives(nested, XorInXor, 2)
    /\ MetricGives(nested, TwoXorsInSequence, 1)
    /\ MetricGives(nested, <<"a">>, 0)

C7_Witness ==
    /\ nested = Returned(2)
    /\ text = XorInXor
    /\ tree = Xor(Xor(Task("a"), Task("b")), Task("c"))

(***************************************************************************)
(* C4.  generate_vectors fails with an invalid-parameter error whenever    *)
(* dim <= 0 or num_vec < 0, for every mode: with such arguments it never   *)
(* returns a list of vectors.                                              *)
(***************************************************************************)
C4_InvalidParameterFails ==
    (vstatus \notin {"idle", "running"} /\ (dim <= 0 \/ num_vec < 0)) => vstatus # "returned"

(***************************************************************************)
(* C9.  In mode bagging_remove every returned vector has exactly dim       *)
(* components, and in the vector an iteration appends every position no    *)
(* pick selected is exactly 0 and every selected position holds the value  *)
(* of the base vector there, however often it was picked; the list         *)
(* returned holds num_vec vectors.                                         *)
(***************************************************************************)
Picked(picks) == {picks[j] : j \in 1..Len(picks)}
C9_BaggingRemove ==
    (mode = "bagging_remove" /\ vstatus \in {"running", "returned"}) =>
        /\ \A k \in 1..Len(vectors) : Len(vectors[k]) = dim
        /\ Len(vectors) > 0 =>
            /\ Len(indexes) = dim
            /\ \A p \in 0..(dim - 1) :
                vectors[Len(vectors)][p + 1] =
                    IF p \in Picked(indexes) THEN base[p + 1] ELSE Zero
        /\ vstatus = "returned" => Len(vectors) = Larger(num_vec, 0)

C9_Witness ==
    /\ mode = "bagging_remove"
    /\ vstatus = "returned"
    /\ Len(vectors) = 2
    /\ dim = 2
    /\ indexes = <<0, 0>>
    /\ base = <<Float(5, 1), Float(5, 1)>>
    /\ vectors[2] = <<Float(5, 1), Zero>>

====
